---- MODULE Spec2Model ----
(***************************************************************************)
(* Model of pytest_mapping_fixtures: the explicit-tagging interface        *)
(* (__init__.py), the auto-detecting "simple" interface (simple.py) and    *)
(* the CallableAsSubscriptable lookup object (_util/__init__.py).          *)
(*                                                                         *)
(* Python objects are records [cls, name, args].  A call returns an        *)
(* outcome [t, v]: t = "return" with the returned value v, or t = "raise"  *)
(* with the exception v.  A generator object returned by a lookup is the   *)
(* frame of that lookup's record; next() on it is the action Advance.      *)
(***************************************************************************)
EXTENDS Integers, Sequences, FiniteSets, TLC

\* ------------------------------------------------------------------ bounds
MaxLookups == 2
MaxMutations == 1

\* The keys a mapping may hold and the values request.param may take.
Keys == {"a"}
Params == {0, 1}

\* ------------------------------------------------------------ Python values
V(cls, name, args) == [cls |-> cls, name |-> name, args |-> args]

PyNone == V("NoneType", "None", <<>>)
Absent == V("<absent>", "", <<>>)

\* Outcome of a call: the value returned (for next(): the value yielded), or
\* the exception raised; carried is StopIteration.value, the value a
\* generator body returned.
Return(v) == [t |-> "return", v |-> v, carried |-> PyNone]
Raise(e) == [t |-> "raise", v |-> e, carried |-> PyNone]
RaiseStopIteration(value) ==
    [t |-> "raise", v |-> V("StopIteration", "", <<>>), carried |-> value]

KeyError(key) == V("KeyError", key, <<>>)
RuntimeError(msg) == V("RuntimeError", msg, <<>>)

\* The basis objects of the package documentation: a standalone object, a
\* returning factory (factory_1), a yielding factory with its teardown after
\* the yield (factory_2); and a generator function that returns without
\* yielding (factory_0).
Literal5 == V("int", "5", <<>>)
factory_1 == V("function", "factory_1", <<>>)
factory_2 == V("generator_function", "factory_2", <<>>)
factory_0 == V("generator_function", "factory_0", <<>>)

BasisCallableWrapper(callable_) == V("BasisCallableWrapper", callable_.name, <<>>)
BasisGeneratorFunctionWrapper(generator_function) ==
    V("BasisGeneratorFunctionWrapper", generator_function.name, <<>>)

Functions == {factory_1}
GeneratorFunctions == {factory_2, factory_0}

callable_(w) == CHOOSE f \in Functions : f.name = w.name
generator_function(w) == CHOOSE g \in GeneratorFunctions : g.name = w.name

\* Python's callable(obj): functions and generator functions are callable,
\* the two wrapper classes define no __call__.
callable(obj) == obj.cls \in {"function", "generator_function"}

\* isinstance(res, collections.abc.Iterator)
IsIterator(res) == res.cls = "generator"

\* obj(*args): a function returns a plain object that depends on its
\* arguments, a generator function returns a fresh generator (none of its
\* body has run yet).
CallResult(obj, args) ==
    IF obj.cls = "generator_function"
    THEN V("generator", obj.name, args)
    ELSE V("retval", obj.name, args)

YieldedValue(gen) == V("yielded", gen.name, gen.args)

\* How many values the body of a generator function yields.
Yields(name) == IF name = "factory_0" THEN 0 ELSE 1

BasisExplicit ==
    {Literal5, BasisCallableWrapper(factory_1)}
        \cup {BasisGeneratorFunctionWrapper(g) : g \in GeneratorFunctions}
BasisSimple == {Literal5, factory_1} \cup GeneratorFunctions
Basis(v) == IF v = "explicit" THEN BasisExplicit ELSE BasisSimple

\* ------------------------------------------------- the Python generator protocol
\* A machine m is [events, lookup]: the log of what the basis factories did,
\* and the number of the lookup call on whose behalf code is running.
Event(ev, name, args, m) == [ev |-> ev, name |-> name, args |-> args, lookup |-> m.lookup]
Log(m, ev, name, args) == [m EXCEPT !.events = Append(@, Event(ev, name, args, m))]

NoOutcome == [t |-> "none", v |-> PyNone, carried |-> PyNone]

\* A generator object made by the package: its code, the arguments bound at
\* its creation, where its body stands, and the state of the iterator `gen`
\* (or `res`) its body holds: none yet, NotStarted, ValueYielded, Closed,
\* Finished.  pulls and closes count the next() and close() calls the body
\* made on that iterator; out is the outcome of the latest next() on the
\* generator object.
Frame(code, obj, args) ==
    [code |-> code, obj |-> obj, args |-> args, state |-> "created",
     inner |-> "none", pulls |-> 0, closes |-> 0, out |-> NoOutcome]

\* What a lookup that returned a plain object has in place of a frame.
NoFrame == [code |-> "none", obj |-> PyNone, args |-> <<>>, state |-> "none",
            inner |-> "none", pulls |-> 0, closes |-> 0, out |-> NoOutcome]

GeneratorObject(code, m) == V("generator", code, <<m.lookup>>)

\* next(gen) on a generator made by a generator function `name`.
GenNext(name, args, inner, m) ==
    CASE inner = "NotStarted" /\ Yields(name) >= 1 ->
            [out |-> Return(YieldedValue(V("generator", name, args))),
             inner |-> "ValueYielded", m |-> Log(m, "setup", name, args)]
      [] inner = "NotStarted" /\ Yields(name) = 0 ->
            [out |-> RaiseStopIteration(PyNone),
             inner |-> "Finished", m |-> Log(m, "setup", name, args)]
      [] inner = "ValueYielded" ->
            [out |-> RaiseStopIteration(PyNone),
             inner |-> "Finished", m |-> Log(m, "teardown", name, args)]
      [] OTHER ->
            [out |-> RaiseStopIteration(PyNone), inner |-> inner, m |-> m]

\* gen.close(): GeneratorExit is raised at the yield the generator is paused
\* at, so the statements after the yield do not run (the factories here have
\* no finally block).
GenClose(name, args, inner, m) ==
    CASE inner = "ValueYielded" ->
            [out |-> Return(PyNone), inner |-> "Closed", m |-> m]
      [] inner = "NotStarted" ->
            [out |-> Return(PyNone), inner |-> "Closed", m |-> m]
      [] OTHER ->
            [out |-> Return(PyNone), inner |-> inner, m |-> m]

\* `yield next(gen, None)`: an exhausted iterator yields None instead of
\* raising.
YieldNext_Default(name, frame, m) ==
    LET r == GenNext(name, frame.args, frame.inner, m) IN
    [out |-> Return(IF r.out.t = "return" THEN r.out.v ELSE PyNone), m |-> r.m,
     frame |-> [frame EXCEPT !.state = "suspended", !.inner = r.inner,
                             !.pulls = @ + 1]]

\* `yield next(gen)`: the body pulls one value and pauses on it.  A
\* StopIteration raised inside a generator body leaves the generator as
\* RuntimeError (PEP 479).
YieldNext(name, frame, m) ==
    LET r == GenNext(name, frame.args, frame.inner, m) IN
    IF r.out.t = "return"
    THEN [out |-> Return(r.out.v), m |-> r.m,
          frame |-> [frame EXCEPT !.state = "suspended", !.inner = r.inner,
                                  !.pulls = @ + 1]]
    ELSE [out |-> Raise(RuntimeError("generator raised StopIteration")), m |-> r.m,
          frame |-> [frame EXCEPT !.state = "done", !.inner = r.inner,
                                  !.pulls = @ + 1]]

\* `return next(gen, None)`: the body finishes the iterator by pulling again.
ReturnClose_PullsAgain(name, frame, m) ==
    LET r == GenNext(name, frame.args, frame.inner, m) IN
    [out |-> RaiseStopIteration(PyNone), m |-> r.m,
     frame |-> [frame EXCEPT !.state = "done", !.inner = r.inner, !.pulls = @ + 1]]

\* `return gen.close()`: the body resumes after its yield, closes the
\* iterator and returns what close() returned.
ReturnClose(name, frame, m) ==
    LET r == GenClose(name, frame.args, frame.inner, m) IN
    [out |-> RaiseStopIteration(r.out.v), m |-> r.m,
     frame |-> [frame EXCEPT !.state = "done", !.inner = r.inner, !.closes = @ + 1]]

\* next() on a generator whose body has returned or raised.
Exhausted(frame, m) == [out |-> RaiseStopIteration(PyNone), m |-> m, frame |-> frame]

\* ---------------------------------------------------- __init__.py: the wrappers
\* BasisCallableWrapper.get_value / get_value_parametrized
BasisCallableWrapper_get_value(self, m) ==
    [out |-> Return(CallResult(callable_(self), <<>>)),
     m |-> Log(m, "call", self.name, <<>>), frame |-> NoFrame]

BasisCallableWrapper_get_value_parametrized(self, param, m) ==
    [out |-> Return(CallResult(callable_(self), <<param>>)),
     m |-> Log(m, "call", self.name, <<param>>), frame |-> NoFrame]

\* BasisGeneratorFunctionWrapper.get_value / get_value_parametrized are
\* generator functions: the call only makes a generator object.
BasisGeneratorFunctionWrapper_get_value(self, m) ==
    [out |-> Return(GeneratorObject("BasisGeneratorFunctionWrapper.get_value", m)),
     m |-> m,
     frame |-> Frame("BasisGeneratorFunctionWrapper.get_value", self, <<>>)]

BasisGeneratorFunctionWrapper_get_value_parametrized(self, param, m) ==
    [out |-> Return(GeneratorObject("BasisGeneratorFunctionWrapper.get_value", m)),
     m |-> m,
     frame |-> Frame("BasisGeneratorFunctionWrapper.get_value", self, <<param>>)]

\* The body of the generator either method makes, run by one next().
BasisGeneratorFunctionWrapper_body(frame, m) ==
    CASE frame.state = "created" ->
            YieldNext(frame.obj.name,
                      [frame EXCEPT !.inner = "NotStarted"],
                      Log(m, "call", frame.obj.name, frame.args))
      [] frame.state = "suspended" -> ReturnClose(frame.obj.name, frame, m)
      [] OTHER -> Exhausted(frame, m)

explicit_get_value_from_basis_object(obj, m) ==
    IF obj.cls = "BasisGeneratorFunctionWrapper"
    THEN BasisGeneratorFunctionWrapper_get_value(obj, m)
    ELSE IF obj.cls = "BasisCallableWrapper"
    THEN BasisCallableWrapper_get_value(obj, m)
    ELSE [out |-> Return(obj), m |-> m, frame |-> NoFrame]

explicit_get_value_from_basis_object_parametrized(obj, param, m) ==
    IF obj.cls = "BasisGeneratorFunctionWrapper"
    THEN BasisGeneratorFunctionWrapper_get_value_parametrized(obj, param, m)
    ELSE IF obj.cls = "BasisCallableWrapper"
    THEN BasisCallableWrapper_get_value_parametrized(obj, param, m)
    ELSE [out |-> Return(obj), m |-> m, frame |-> NoFrame]

\* ------------------------------------------------------------------ simple.py
\* _get_value_from_basis_object and its parametrized twin contain a yield:
\* they are generator functions, so the call runs none of the body and
\* returns a generator object whatever obj is.
simple_get_value_from_basis_object(obj, m) ==
    [out |-> Return(GeneratorObject("simple._get_value_from_basis_object", m)),
     m |-> m,
     frame |-> Frame("simple._get_value_from_basis_object", obj, <<>>)]

simple_get_value_from_basis_object_parametrized(obj, param, m) ==
    [out |-> Return(GeneratorObject("simple._get_value_from_basis_object", m)),
     m |-> m,
     frame |-> Frame("simple._get_value_from_basis_object", obj, <<param>>)]

\* The body of either, run by one next().
simple_get_value_body(frame, m) ==
    CASE frame.state = "created" /\ callable(frame.obj) ->
            LET res == CallResult(frame.obj, frame.args)
                m1 == Log(m, "call", frame.obj.name, frame.args) IN
            IF IsIterator(res)
            THEN YieldNext(res.name, [frame EXCEPT !.inner = "NotStarted"], m1)
            ELSE [out |-> RaiseStopIteration(res), m |-> m1,
                  frame |-> [frame EXCEPT !.state = "done"]]
      [] frame.state = "created" /\ ~callable(frame.obj) ->
            [out |-> RaiseStopIteration(frame.obj), m |-> m,
             frame |-> [frame EXCEPT !.state = "done"]]
      [] frame.state = "suspended" -> ReturnClose(frame.obj.name, frame, m)
      [] OTHER -> Exhausted(frame, m)

\* next(g) on a generator object a lookup returned.
GeneratorBody(frame, m) ==
    IF frame.code = "BasisGeneratorFunctionWrapper.get_value"
    THEN BasisGeneratorFunctionWrapper_body(frame, m)
    ELSE simple_get_value_body(frame, m)

\* ------------------------------------------------ construction of the fixture
EmptyDict == [k \in Keys |-> Absent]

\* dict(mapping.items()): a new dict with the same key -> object pairs.
dict_items(mapping) == [k \in Keys |-> mapping[k]]

\* BindMapping with the copy forgotten: the closure keeps the caller's dict.
BindMapping_NeverCopies(mapping, copy_mapping) ==
    [ref |-> "caller", cells |-> EmptyDict]

\* What `mapping` names inside the closure: the caller's dict itself, or the
\* copy the constructor made.
BindMapping(mapping, copy_mapping) ==
    IF copy_mapping
    THEN [ref |-> "copy", cells |-> dict_items(mapping)]
    ELSE [ref |-> "caller", cells |-> EmptyDict]

\* _make_mapping_fixture_function / _make_mapping_fixture_function_parametrized
\* of either module: the fixture function, a closure over `mapping`.
make_mapping_fixture_function_plain(module, mapping, copy_mapping) ==
    [module |-> module, parametrized |-> FALSE,
     closure |-> BindMapping(mapping, copy_mapping)]

make_mapping_fixture_function_parametrized(module, mapping, copy_mapping) ==
    [module |-> module, parametrized |-> TRUE,
     closure |-> BindMapping(mapping, copy_mapping)]

make_mapping_fixture_function(module, mapping, is_parametrized, copy_mapping) ==
    IF is_parametrized
    THEN make_mapping_fixture_function_parametrized(module, mapping, copy_mapping)
    ELSE make_mapping_fixture_function_plain(module, mapping, copy_mapping)

\* `params` of make_mapping_fixture: None, or a list of parameter values.
ParamsNone == [given |-> FALSE, list |-> <<>>]
ParamsList(l) == [given |-> TRUE, list |-> l]
ParamsChoices ==
    {ParamsNone, ParamsList(<<>>)} \cup {ParamsList(<<p>>) : p \in Params}

\* make_mapping_fixture testing the truth of params instead of `is not None`.
make_mapping_fixture_Truthy(mapping, params) ==
    [mapping |-> mapping, is_parametrized |-> (params.given /\ Len(params.list) > 0),
     copy_mapping |-> TRUE]

\* make_mapping_fixture: the arguments it hands to
\* make_mapping_fixture_function (copy_mapping is left at its default).
make_mapping_fixture(mapping, params) ==
    [mapping |-> mapping, is_parametrized |-> params.given, copy_mapping |-> TRUE]

\* --------------------------------------------------------------- the lookup
\* The resolver each of the four closures calls on the object it read.
Resolver(fixture, obj, request, m) ==
    CASE fixture.module = "explicit" /\ ~fixture.parametrized ->
            explicit_get_value_from_basis_object(obj, m)
      [] fixture.module = "explicit" /\ fixture.parametrized ->
            explicit_get_value_from_basis_object_parametrized(obj, request.param, m)
      [] fixture.module = "simple" /\ ~fixture.parametrized ->
            simple_get_value_from_basis_object(obj, m)
      [] OTHER ->
            simple_get_value_from_basis_object_parametrized(obj, request.param, m)

\* mapping_func reading the dict with mapping.get(key): a missing key gives
\* None, which is resolved like any object.
mapping_func_Get(fixture, d, request, key, m) ==
    Resolver(fixture, IF d[key] = Absent THEN PyNone ELSE d[key], request, m)

\* mapping_func of the four closures: mapping[key] is evaluated first (and
\* raises KeyError), then request.param, then the resolver is called.
mapping_func(fixture, d, request, key, m) ==
    IF d[key] = Absent
    THEN [out |-> Raise(KeyError(key)), m |-> m, frame |-> NoFrame]
    ELSE Resolver(fixture, d[key], request, m)

\* CallableAsSubscriptable.__call__ and .__getitem__
CallableAsSubscriptable_call(fixture, d, request, arg, m) ==
    mapping_func(fixture, d, request, arg, m)

\* __getitem__ handing out the stored basis object instead of calling.
CallableAsSubscriptable_getitem_Raw(fixture, d, request, arg, m) ==
    [out |-> IF d[arg] = Absent THEN Raise(KeyError(arg)) ELSE Return(d[arg]),
     m |-> m, frame |-> NoFrame]

CallableAsSubscriptable_getitem(fixture, d, request, arg, m) ==
    mapping_func(fixture, d, request, arg, m)

\* ------------------------------------------------------------------- state
VARIABLES
    stage,        \* "module": nothing built; "constructed"; "resolved"
    variant,      \* which module's interface is used: "explicit" or "simple"
    mapping,      \* the caller's dict
    fixture,      \* the fixture function (module, parametrized, closure)
    shim,         \* the make_mapping_fixture call, if the fixture came from it
    ctor,         \* the arguments make_mapping_fixture_function received
    request,      \* pytest's request object given to a parametrized fixture
    resolution,   \* the request as it was when the fixture was resolved
    lookups,      \* per lookup call: key, the basis object read, outcome, and
                  \* the generator returned
    access,       \* the lookup the latest step made, by how it was written:
                  \* "call", "getitem"; "none" if that step was no lookup
    events,       \* what the basis factories did, in order
    nMutations    \* how often the caller's dict or request.param has been changed
                  \* since construction

vars == <<stage, variant, mapping, fixture, shim, ctor, request, resolution, lookups,
          access, events, nMutations>>

NoRequest == [param |-> -1]

Init ==
    /\ stage = "module"
    /\ variant \in {"explicit", "simple"}
    /\ mapping \in [Keys -> Basis(variant) \cup {Absent}]
    /\ fixture = make_mapping_fixture_function(variant, EmptyDict, FALSE, FALSE)
    /\ shim = [used |-> FALSE, params |-> ParamsNone, mapping |-> EmptyDict]
    /\ ctor = [mapping |-> EmptyDict, is_parametrized |-> FALSE, copy_mapping |-> FALSE]
    /\ request = NoRequest
    /\ resolution = NoRequest
    /\ lookups = <<>>
    /\ access = "none"
    /\ events = <<>>
    /\ nMutations = 0

\* The dict the closure's `mapping` names now.
BoundMapping == IF fixture.closure.ref = "caller" THEN mapping ELSE fixture.closure.cells

Machine(n) == [events |-> events, lookup |-> n]

\* The test module calls make_mapping_fixture_function directly.
MakeMappingFixtureFunction(is_parametrized, copy_mapping) ==
    /\ stage = "module"
    /\ stage' = "constructed"
    /\ ctor' = [mapping |-> mapping, is_parametrized |-> is_parametrized,
                copy_mapping |-> copy_mapping]
    /\ fixture' = make_mapping_fixture_function(variant, mapping, is_parametrized,
                                                copy_mapping)
    /\ UNCHANGED <<variant, mapping, shim, request, lookups, access, events,
                   nMutations, resolution>>

\* The test module calls make_mapping_fixture(name, mapping, params=params).
MakeMappingFixture(params) ==
    /\ stage = "module"
    /\ stage' = "constructed"
    /\ shim' = [used |-> TRUE, params |-> params, mapping |-> mapping]
    /\ ctor' = make_mapping_fixture(mapping, params)
    /\ fixture' = make_mapping_fixture_function(variant, ctor'.mapping,
                        ctor'.is_parametrized, ctor'.copy_mapping)
    /\ UNCHANGED <<variant, mapping, request, lookups, access, events, nMutations,
                   resolution>>

\* The caller's code does mapping[k] = v after the fixture was constructed.
SetItem(k, v) ==
    /\ stage # "module"
    /\ nMutations < MaxMutations
    /\ nMutations' = nMutations + 1
    /\ mapping[k] # v
    /\ mapping' = [mapping EXCEPT ![k] = v]
    /\ access' = "none"
    /\ UNCHANGED <<stage, variant, fixture, shim, ctor, request, lookups, events,
                   resolution>>

\* The caller's code does del mapping[k].
DelItem(k) ==
    /\ stage # "module"
    /\ nMutations < MaxMutations
    /\ nMutations' = nMutations + 1
    /\ mapping[k] # Absent
    /\ mapping' = [mapping EXCEPT ![k] = Absent]
    /\ access' = "none"
    /\ UNCHANGED <<stage, variant, fixture, shim, ctor, request, lookups, events,
                   resolution>>

\* Code holding the request object (the test, another fixture, a hook) assigns
\* request.param after the fixture was resolved.
SetRequestParam(p) ==
    /\ stage = "resolved"
    /\ fixture.parametrized
    /\ nMutations < MaxMutations
    /\ nMutations' = nMutations + 1
    /\ request.param # p
    /\ request' = [request EXCEPT !.param = p]
    /\ access' = "none"
    /\ UNCHANGED <<stage, variant, mapping, fixture, shim, ctor, resolution, lookups,
                   events>>

\* pytest resolves the fixture: mapping_fixture() makes the lookup object.
ResolvePlain ==
    /\ stage = "constructed"
    /\ ~fixture.parametrized
    /\ stage' = "resolved"
    /\ UNCHANGED <<variant, mapping, fixture, shim, ctor, request, lookups, access,
                   events, nMutations, resolution>>

\* pytest resolves the parametrized fixture: mapping_fixture(request), with
\* request.param one of the registered params.
ResolveParametrized(p) ==
    /\ stage = "constructed"
    /\ fixture.parametrized
    /\ shim.used => \E i \in 1..Len(shim.params.list) : shim.params.list[i] = p
    /\ stage' = "resolved"
    /\ request' = [param |-> p]
    /\ resolution' = request'
    /\ UNCHANGED <<variant, mapping, fixture, shim, ctor, lookups, access, events,
                   nMutations>>

\* What a lookup call leaves in the history: the key, the basis object
\* mapping[key] gave (Absent if none), the request.param the closure had
\* before it, the call's outcome, the generator made.
LookupRecord(key, r) ==
    [key |-> key, obj |-> BoundMapping[key], param |-> request.param,
     out |-> r.out, frame |-> r.frame]

\* The test evaluates lookup(key).
LookupCall(key) ==
    /\ stage = "resolved"
    /\ Len(lookups) < MaxLookups
    /\ LET r == CallableAsSubscriptable_call(fixture, BoundMapping, request, key,
                                             Machine(Len(lookups) + 1)) IN
        /\ lookups' = Append(lookups, LookupRecord(key, r))
        /\ events' = r.m.events
    /\ access' = "call"
    /\ UNCHANGED <<stage, variant, mapping, fixture, shim, ctor, request, nMutations,
                   resolution>>

\* The test evaluates lookup[key].
LookupSubscript(key) ==
    /\ stage = "resolved"
    /\ Len(lookups) < MaxLookups
    /\ LET r == CallableAsSubscriptable_getitem(fixture, BoundMapping, request, key,
                                                Machine(Len(lookups) + 1)) IN
        /\ lookups' = Append(lookups, LookupRecord(key, r))
        /\ events' = r.m.events
    /\ access' = "getitem"
    /\ UNCHANGED <<stage, variant, mapping, fixture, shim, ctor, request, nMutations,
                   resolution>>

\* The consumer (the test, or pytest driving a yield fixture) calls next()
\* on a generator a lookup returned.
Advance(i) ==
    /\ i \in 1..Len(lookups)
    /\ lookups[i].frame.state \in {"created", "suspended", "done"}
    /\ LET r == GeneratorBody(lookups[i].frame, Machine(i)) IN
        /\ lookups' = [lookups EXCEPT ![i].frame = [r.frame EXCEPT !.out = r.out]]
        /\ events' = r.m.events
    /\ access' = "none"
    /\ UNCHANGED <<stage, variant, mapping, fixture, shim, ctor, request, nMutations,
                   resolution>>

\* The consumer drops a generator it did not drive to its end: the body never
\* resumes, so nothing after its yield runs.
Abandon(i) ==
    /\ i \in 1..Len(lookups)
    /\ lookups[i].frame.state \in {"created", "suspended"}
    /\ lookups' = [lookups EXCEPT ![i].frame.state = "closed"]
    /\ access' = "none"
    /\ UNCHANGED <<stage, variant, mapping, fixture, shim, ctor, request, events,
                   nMutations, resolution>>

Next ==
    \/ \E p \in BOOLEAN, c \in BOOLEAN : MakeMappingFixtureFunction(p, c)
    \/ \E params \in ParamsChoices : MakeMappingFixture(params)
    \/ \E k \in Keys, v \in Basis(variant) : SetItem(k, v)
    \/ \E k \in Keys : DelItem(k)
    \/ ResolvePlain
    \/ \E p \in Params : ResolveParametrized(p)
    \/ \E p \in Params : SetRequestParam(p)
    \/ \E k \in Keys : LookupCall(k)
    \/ \E k \in Keys : LookupSubscript(k)
    \/ \E i \in 1..MaxLookups : Advance(i)
    \/ \E i \in 1..MaxLookups : Abandon(i)

Spec == Init /\ [][Next]_vars

\* ================================================================ properties
LookupIds == 1..Len(lookups)

\* The logical kind of a basis object under the interface in use.
IsLiteral(obj) ==
    /\ obj # Absent
    /\ ~callable(obj)
    /\ obj.cls \notin {"BasisCallableWrapper", "BasisGeneratorFunctionWrapper"}

IsOneShotFactory(obj) ==
    IF variant = "explicit" THEN obj.cls = "BasisCallableWrapper"
    ELSE obj.cls = "function"

IsTeardownFactory(obj) ==
    IF variant = "explicit" THEN obj.cls = "BasisGeneratorFunctionWrapper"
    ELSE obj.cls = "generator_function"

\* The arguments a factory is to be called with in this resolution.
FactoryArgs == IF fixture.parametrized THEN <<resolution.param>> ELSE <<>>

EventsOf(i, ev) == {j \in 1..Len(events) : events[j].lookup = i /\ events[j].ev = ev}

\* C1: for every literal basis object v under key k, lookup(k) returns v
\* itself, in both interfaces, parametrized or not.
C1_LiteralReturnedUnchanged ==
    \A i \in LookupIds :
        IsLiteral(lookups[i].obj) => lookups[i].out = Return(lookups[i].obj)

\* C2: for every one-shot factory f under key k, lookup(k) returns f()
\* directly when unparametrized and f(p) directly under parameter p.
C2_OneShotFactoryResultReturned ==
    \A i \in LookupIds :
        IsOneShotFactory(lookups[i].obj) =>
            lookups[i].out = Return(CallResult(V("function", lookups[i].obj.name, <<>>),
                                               FactoryArgs))

\* C3: a teardown-yielding factory g that yields v and then runs its teardown:
\* the resolution yields exactly v exactly once, and driving it to its end
\* afterwards raises no error and runs g's teardown exactly once.
C3_TeardownRunsExactlyOnce ==
    \A i \in LookupIds :
        LET l == lookups[i] IN
        (IsTeardownFactory(l.obj) /\ Yields(l.obj.name) >= 1) =>
            /\ l.frame.state = "suspended" =>
                    /\ l.frame.out =
                            Return(YieldedValue(V("generator", l.obj.name, FactoryArgs)))
                    /\ l.frame.pulls = 1
            /\ l.frame.state = "done" =>
                    /\ l.frame.out.v.cls = "StopIteration"
                    /\ l.frame.pulls = 1
                    /\ Cardinality(EventsOf(i, "setup")) = 1
                    /\ Cardinality(EventsOf(i, "teardown")) = 1

\* The same basis object as each interface wants it written.
ToExplicit(obj) == IF obj.cls = "function" THEN BasisCallableWrapper(obj) ELSE obj
ToSimple(obj) == IF obj.cls = "BasisCallableWrapper" THEN callable_(obj) ELSE obj

\* What lookup i returns under the interface `module`, all else equal.
OutcomeUnder(module, i) ==
    LET obj == IF module = "explicit" THEN ToExplicit(lookups[i].obj)
               ELSE ToSimple(lookups[i].obj)
    IN mapping_func([fixture EXCEPT !.module = module], [k \in Keys |-> obj],
                    [param |-> lookups[i].param], lookups[i].key, Machine(i)).out

\* C9: on literals and one-shot factories returning non-iterators the two
\* interfaces return identical lookup results for identical inputs.
C9_InterfacesAgree ==
    \A i \in LookupIds :
        (IsLiteral(lookups[i].obj) \/ IsOneShotFactory(lookups[i].obj)) =>
            /\ OutcomeUnder("explicit", i) = OutcomeUnder("simple", i)
            /\ lookups[i].out = OutcomeUnder("explicit", i)

\* A step that makes one more lookup call, and the record it leaves.
IsLookupStep == Len(lookups') = Len(lookups) + 1
NewLookup == lookups'[Len(lookups')]

\* C4: with copy_mapping=True a change of the caller's dict made after
\* construction changes no later lookup (every lookup resolves the dict as it
\* was at construction); with copy_mapping=False every lookup resolves the
\* caller's dict as it is when the lookup is made.
C4_LookupReads ==
    IsLookupStep =>
        LET d == IF ctor.copy_mapping THEN ctor.mapping ELSE mapping
            r == mapping_func(fixture, d, request, NewLookup.key,
                              Machine(Len(lookups) + 1))
        IN /\ NewLookup.out = r.out
           /\ NewLookup.frame = r.frame
           /\ NewLookup.obj = d[NewLookup.key]
           /\ events' = r.m.events

C4_SnapshotDecouplesMapping == [][C4_LookupReads]_vars

\* A lookup just made, after the caller rebound or removed its key, that
\* still gave the object the key had at construction.
C4_Witness ==
    /\ ctor.copy_mapping
    /\ nMutations > 0
    /\ access # "none"
    /\ LET l == lookups[Len(lookups)] IN
          /\ mapping[l.key] # l.obj
          /\ l.obj = ctor.mapping[l.key]
          /\ l.obj # Absent
          /\ l.out.t = "return"

\* C5 as amended: make_mapping_fixture passes is_parametrized=True exactly
\* when params is not None (an empty list included), and passes the mapping
\* through unchanged.
C5_ParametrizedIffParamsGiven ==
    shim.used =>
        /\ ctor.is_parametrized = shim.params.given
        /\ fixture.parametrized = shim.params.given
        /\ ctor.mapping = shim.mapping

C5_Witness ==
    /\ shim.used
    /\ shim.params = ParamsList(<<>>)
    /\ ctor.is_parametrized
    /\ \E k \in Keys : ctor.mapping[k] # Absent

\* C5 as claimed: is_parametrized=True exactly when a non-empty list of
\* params is supplied.
C5_ParametrizedIffParamsNonEmpty ==
    shim.used =>
        /\ ctor.is_parametrized = (shim.params.given /\ Len(shim.params.list) > 0)
        /\ ctor.mapping = shim.mapping

\* C7: lookup of a key absent from the closure's mapping raises KeyError
\* from the lookup call itself, invokes no factory, makes no generator and
\* leaves the mapping unchanged, in both interfaces, parametrized or not.
C7_LookupOfAbsentKey ==
    (IsLookupStep /\ BoundMapping[NewLookup.key] = Absent) =>
        /\ NewLookup.out = Raise(KeyError(NewLookup.key))
        /\ NewLookup.frame = NoFrame
        /\ events' = events
        /\ mapping' = mapping
        /\ fixture' = fixture

C7_AbsentKeyRaisesKeyError == [][C7_LookupOfAbsentKey]_vars

C7_Witness ==
    \E i \in LookupIds :
        /\ lookups[i].obj = Absent
        /\ lookups[i].out = Raise(KeyError(lookups[i].key))

\* C8: for every key, present or absent, lookup(k) and lookup[k] have the
\* same outcome: same value or error, same generator, same factory calls.
C8_BothFormsSame ==
    /\ stage = "resolved" =>
          \A k \in Keys :
              CallableAsSubscriptable_call(fixture, BoundMapping, request, k,
                                           Machine(Len(lookups) + 1))
              = CallableAsSubscriptable_getitem(fixture, BoundMapping, request, k,
                                                Machine(Len(lookups) + 1))
    /\ IsLookupStep =>
          \A f \in {"call", "getitem"} :
              LET r == IF f = "call"
                       THEN CallableAsSubscriptable_call(fixture, BoundMapping, request,
                                NewLookup.key, Machine(Len(lookups) + 1))
                       ELSE CallableAsSubscriptable_getitem(fixture, BoundMapping, request,
                                NewLookup.key, Machine(Len(lookups) + 1))
              IN /\ NewLookup.out = r.out
                 /\ NewLookup.frame = r.frame
                 /\ events' = r.m.events

C8_CallAndSubscriptEquivalent == [][C8_BothFormsSame]_vars

C8_Witness ==
    /\ access = "getitem"
    /\ Len(lookups) = MaxLookups
    /\ lookups[1].obj # Absent
    /\ lookups[Len(lookups)].obj = Absent

\* A next() on the generator of lookup i that runs its body from the start.
IsFirstNext(i) ==
    /\ i \in LookupIds
    /\ Len(lookups') = Len(lookups)
    /\ lookups[i].frame.state = "created"
    /\ lookups'[i].frame.state \in {"suspended", "done"}

YieldsNothing(i) ==
    /\ IsTeardownFactory(lookups[i].obj)
    /\ Yields(lookups[i].obj.name) = 0

\* C6 as amended: when a teardown-yielding factory completes without
\* yielding, the lookup itself still returns a generator and the first next()
\* on it fails: the StopIteration of the one pull is raised inside the
\* package's generator body, is neither caught nor retried there, the
\* iterator is not closed, and the consumer receives it as RuntimeError
\* "generator raised StopIteration" (PEP 479), not as StopIteration.
C6_FirstPullFails ==
    \A i \in 1..MaxLookups :
        /\ (IsFirstNext(i) /\ YieldsNothing(i)) =>
              /\ lookups[i].out.t = "return"
              /\ lookups'[i].frame.out =
                      Raise(RuntimeError("generator raised StopIteration"))
              /\ lookups'[i].frame.state = "done"
              /\ lookups'[i].frame.inner = "Finished"
              /\ lookups'[i].frame.pulls = 1
              /\ lookups'[i].frame.closes = 0
        /\ (i \in LookupIds /\ Len(lookups') = Len(lookups)
              /\ lookups[i].frame.state = "done") =>
              /\ lookups'[i].frame.pulls = lookups[i].frame.pulls
              /\ lookups'[i].frame.closes = lookups[i].frame.closes
              /\ lookups'[i].frame.inner = lookups[i].frame.inner

C6_FirstPullRaisesStopIteration ==
    \A i \in 1..MaxLookups :
        (IsFirstNext(i) /\ YieldsNothing(i)) =>
            /\ lookups'[i].frame.out.t = "raise"
            /\ lookups'[i].frame.out.v.cls = "StopIteration"

C10_HandleState ==
    \A i \in LookupIds :
        LET f == lookups[i].frame IN
        /\ f.pulls <= 1
        /\ f.closes <= 1
        /\ f.closes = 1 => (f.pulls = 1 /\ f.inner = "Closed")
        /\ f.inner = "none" => (f.pulls = 0 /\ f.closes = 0)
        /\ f.inner = "ValueYielded" => (f.pulls = 1 /\ f.closes = 0)
        /\ f.inner = "Closed" => (f.pulls = 1 /\ f.closes = 1)
        /\ f.inner \in {"none", "ValueYielded", "Closed", "Finished"}
        /\ f.inner = "Finished" => Yields(f.obj.name) = 0

C10_HandleStep ==
    \A i \in LookupIds :
        LET f == lookups[i].frame
            g == lookups'[i].frame IN
        (Len(lookups') = Len(lookups) /\ g.inner # f.inner) =>
            \/ f.inner = "none" /\ g.inner = "ValueYielded" /\ g.pulls = f.pulls + 1
            \/ f.inner = "none" /\ g.inner = "Finished" /\ Yields(f.obj.name) = 0
            \/ f.inner = "ValueYielded" /\ g.inner = "Closed" /\ g.closes = f.closes + 1

C10_SinglePullThenClose == [](C10_HandleState) /\ [][C10_HandleStep]_vars

C10_Witness ==
    \E i, j \in LookupIds :
        /\ lookups[i].frame.inner = "Closed"
        /\ lookups[i].frame.state = "done"
        /\ lookups[j].frame.inner = "ValueYielded"
        /\ lookups[j].frame.state = "closed"

\* A basis object that stands for a factory, one-shot or teardown-yielding.
IsFactory(obj) == obj # Absent /\ ~IsLiteral(obj)

\* C11: resolving the fixture invokes no factory (nothing has been invoked
\* while no lookup was made), and for any two lookup calls on factories the
\* factory of the earlier call is invoked before the factory of the later
\* call: once the later call's factory has been invoked, the earlier call's
\* was invoked before it.
C11_FactoriesInvokedInLookupOrder ==
    /\ Len(lookups) = 0 => events = <<>>
    /\ \A i, j \in LookupIds :
          (/\ i < j
           /\ IsFactory(lookups[i].obj)
           /\ IsFactory(lookups[j].obj)
           /\ EventsOf(j, "call") # {}) =>
              \E a \in EventsOf(i, "call") : \A b \in EventsOf(j, "call") : a < b

\* C12: the lookup object never memoizes: every access re-reads the mapping
\* and re-resolves the basis object, so each access to a key mapped to a
\* one-shot factory makes exactly one invocation of that factory, during
\* that access, and no other step invokes it: n accesses, n invocations.
C12_OneInvocationPerAccess ==
    /\ (IsLookupStep /\ IsOneShotFactory(NewLookup.obj)) =>
          /\ NewLookup.obj = BoundMapping[NewLookup.key]
          /\ Len(events') = Len(events) + 1
          /\ SubSeq(events', 1, Len(events)) = events
          /\ LET e == events'[Len(events')] IN
                /\ e.ev = "call"
                /\ e.name = NewLookup.obj.name
                /\ e.lookup = Len(lookups')
    /\ ~IsLookupStep =>
          \A i \in LookupIds :
              IsOneShotFactory(lookups[i].obj) =>
                  Cardinality(EventsOf(i, "call")') = Cardinality(EventsOf(i, "call"))

C12_NeverMemoizes == [][C12_OneInvocationPerAccess]_vars

\* C13: in the parametrized path the parameter is the one the request had
\* when the fixture was resolved: every lookup made through that resolution
\* resolves with it and every factory invocation receives it as its single
\* argument, whatever request.param has become since.
C13_ParamOfResolutionThreaded ==
    (stage = "resolved" /\ fixture.parametrized) =>
        /\ \A i \in LookupIds : lookups[i].param = resolution.param
        /\ \A j \in 1..Len(events) :
              events[j].ev = "call" => events[j].args = <<resolution.param>>

====
